---- MODULE Spec2Model ----
(***************************************************************************)
(* Model of src/send_data.py: a vital-signs generator that advances seven  *)
(* Ornstein-Uhlenbeck signals once per tick and publishes the rendered     *)
(* Reading to a realtime database.                                          *)
(*                                                                         *)
(* Numbers.  Python floats are modelled in fixed point:                    *)
(*   signal values, lo, hi, mu    hundredths      (74.6  -> 7460)          *)
(*   theta, sigma                 hundredths      (0.18  -> 18)            *)
(*   dt and time.monotonic()      tenths of a s   (1.0 s -> 10)            *)
(*   dt ** 0.5                    thousandths     (1.0   -> 1000)          *)
(*   random.gauss(0, 1)           tenths          (-3.0  -> -30)           *)
(* The increment of one step is computed in millionths and rounded once to *)
(* the nearest hundredth.                                                  *)
(***************************************************************************)
EXTENDS Integers, Sequences, FiniteSets, TLC

VARIABLES
    pc,             \* position of the script: "load", "crashed", "main",
                    \* "loop", "sleep", "done"
    credExists,     \* CRED_PATH.exists()
    args,           \* argparse result: [validate, once]
    _state,         \* the module-level dict _state (unbound before line 48)
    _last_update_t, \* the module-level _last_update_t (-1: unbound)
    clock,          \* time.monotonic()
    frame,          \* the locals of the most recent send_fake_data call
    sink,           \* the record stored at base_path in the database
    ticks,          \* number of send_fake_data calls so far
    attempts,       \* number of ref.set calls so far
    sleeps,         \* number of time.sleep(1) calls so far
    interrupted     \* KeyboardInterrupt was caught by main

vars == <<pc, credExists, args, _state, _last_update_t, clock, frame, sink,
          ticks, attempts, sleeps, interrupted>>

(***************************************************************************)
(* Bounds of the model.                                                    *)
(***************************************************************************)
MaxTicks == 2       \* send_fake_data calls explored per run
MaxNoise == 80      \* |random.gauss| explored, in tenths (8 sigma)
MaxLatency == 10    \* longest ref.set call explored, in tenths of a second
MaxEcgSteps == 4    \* ecg steps explored with heartRate held

Signals == {"systolic", "diastolic", "heartRate", "respiratoryRate",
            "temperature", "spo2", "ecg"}

Unbound == [n \in {} |-> 0]     \* a name that has not been assigned yet

Noise == {0 - MaxNoise, 0, MaxNoise}
ZeroNoise == [n \in Signals |-> 0]

(***************************************************************************)
(* Arithmetic helpers.                                                     *)
(***************************************************************************)
Max(a, b) == IF a >= b THEN a ELSE b
Min(a, b) == IF a <= b THEN a ELSE b

\* a / b rounded to the nearest integer (b > 0), the rounding of one float
\* operation seen at the model's resolution
RoundDiv(a, b) == (2 * a + b) \div (2 * b)

RECURSIVE Bisect(_, _, _)
Bisect(n, lo, hi) ==
    IF hi - lo <= 1 THEN lo
    ELSE LET mid == (lo + hi) \div 2
         IN IF mid * mid <= n THEN Bisect(n, mid, hi) ELSE Bisect(n, lo, mid)

\* dt ** 0.5 : dt in tenths, result in thousandths (tabulated for the
\* values of dt a run of the model can produce)
SqrtTable == [dt \in 0..100 |-> Bisect(dt * 100000, 0, 4000)]
Sqrt(dt) == SqrtTable[dt]

\* int(round(x)) : Python 3 rounds halves to the even integer
PyRound(x) ==
    LET q == x \div 100
        r == x % 100
    IN IF r < 50 THEN q
       ELSE IF r > 50 THEN q + 1
       ELSE IF q % 2 = 0 THEN q ELSE q + 1

\* round(float(x), 1) : result in tenths
PyRound1(x) ==
    LET q == x \div 10
        r == x % 10
    IN IF r < 5 THEN q
       ELSE IF r > 5 THEN q + 1
       ELSE IF q % 2 = 0 THEN q ELSE q + 1

(***************************************************************************)
(* The generator.                                                          *)
(***************************************************************************)
InitialState ==
    [n \in Signals |->
        CASE n = "systolic" -> 11800
          [] n = "diastolic" -> 7800
          [] n = "heartRate" -> 7400
          [] n = "respiratoryRate" -> 1500
          [] n = "temperature" -> 3680
          [] n = "spo2" -> 9800
          [] n = "ecg" -> 7400]

\* faulty variant of _clamp: the upper bound is not applied
_clamp_nohi(v, lo, hi) == Max(lo, v)

_clamp(v, lo, hi) == Max(lo, Min(hi, v))

\* x += theta * (mu - x) * dt + sigma * (dt ** 0.5) * noise, clamped and
\* stored under name; the value is the dict after the call
_ou_step(st, name, lo, hi, mu, theta, sigma, dt, noise) ==
    LET x == st[name]
        drift == theta * (mu - x) * dt          \* in 1/100000
        jitter == sigma * Sqrt(dt) * noise      \* in 1/1000000
        x1 == x + RoundDiv(10 * drift + jitter, 10000)
    IN [st EXCEPT ![name] = _clamp(x1, lo, hi)]

\* the dict literal built at lines 126-137
Render(systolic, diastolic, heart_rate, respiratory_rate, temperature, spo2, ecg_val, timestamp) ==
    [bloodPressure |-> [systolic |-> PyRound(systolic),
                        diastolic |-> PyRound(diastolic)],
     heartRate |-> PyRound(heart_rate),
     respiratoryRate |-> PyRound(respiratory_rate),
     temperature |-> PyRound1(temperature),
     spo2 |-> PyRound(spo2),
     ecg |-> PyRound(ecg_val),
     lastUpdated |-> timestamp]

\* faulty variant of TickDt: the floor of 0.1 is missing
TickDt_nofloor(now, last) == now - last

\* dt = max(0.1, now - _last_update_t)
TickDt(now, last) == Max(1, now - last)

\* int(time.time()): the wall clock, taken to run with the monotonic clock
WallClock(now) == 1700000000 + now \div 10

\* faulty variant of EcgMu: the ecg step reverts to the static mean 75
EcgMu_static(heart_rate) == 7500

\* mean of the ecg step
EcgMu(heart_rate) == heart_rate

\* rr_mu = _clamp(14.0 + (heart_rate - 75.0) * 0.05, 12.0, 18.0)
RrMu(heart_rate) == _clamp(1400 + RoundDiv((heart_rate - 7500) * 5, 100), 1200, 1800)

\* line 109: if diastolic > systolic - 25
CouplingFires(systolic, diastolic) == diastolic > systolic - 2500

\* faulty variant of Couple: the corrected value is not written back to the dict
Couple_nostore(st, systolic, diastolic) == st

\* the coupling correction of lines 109-112 applied to the dict
Couple(st, systolic, diastolic) ==
    IF CouplingFires(systolic, diastolic)
    THEN [st EXCEPT !["diastolic"] = _clamp(systolic - 2500, 6000, 9000)]
    ELSE st

\* one _ou_step call with its keyword arguments gathered in c
Call(st, c, noise) ==
    _ou_step(st, c.name, c.lo, c.hi, c.mu, c.theta, c.sigma, c.dt, noise)

\* lines 91-93: the arguments of the ecg step
EcgCall(heart_rate, dt) ==
    [name |-> "ecg", lo |-> 5500, hi |-> 11000, mu |-> EcgMu(heart_rate),
     theta |-> 180, sigma |-> 300, dt |-> dt]

\* The generator part of send_fake_data (lines 82-137) as a function of the
\* dict, the last tick time, the clock reading and the seven gauss draws z.
\* The value holds the new dict, the new _last_update_t and the locals of
\* the call; ou_calls lists the arguments of the seven _ou_step calls in
\* the order they are made.
Generate(st, last, now, z) ==
    LET dt == TickDt(now, last)
        c1 == [name |-> "heartRate", lo |-> 6000, hi |-> 10000, mu |-> 7500,
               theta |-> 60, sigma |-> 150, dt |-> dt]
        s1 == Call(st, c1, z["heartRate"])
        heart_rate == s1["heartRate"]
        c2 == EcgCall(heart_rate, dt)
        s2 == Call(s1, c2, z["ecg"])
        ecg_val == s2["ecg"]
        rr_mu == RrMu(heart_rate)
        c3 == [name |-> "respiratoryRate", lo |-> 1200, hi |-> 2000, mu |-> rr_mu,
               theta |-> 35, sigma |-> 25, dt |-> dt]
        s3 == Call(s2, c3, z["respiratoryRate"])
        respiratory_rate == s3["respiratoryRate"]
        c4 == [name |-> "systolic", lo |-> 10500, hi |-> 13000, mu |-> 11800,
               theta |-> 18, sigma |-> 70, dt |-> dt]
        s4 == Call(s3, c4, z["systolic"])
        systolic == s4["systolic"]
        c5 == [name |-> "diastolic", lo |-> 6500, hi |-> 8500, mu |-> 7800,
               theta |-> 18, sigma |-> 50, dt |-> dt]
        s5 == Call(s4, c5, z["diastolic"])
        dia_ou == s5["diastolic"]
        s6 == Couple(s5, systolic, dia_ou)
        diastolic == s6["diastolic"]
        c6 == [name |-> "temperature", lo |-> 3650, hi |-> 3720, mu |-> 3680,
               theta |-> 6, sigma |-> 3, dt |-> dt]
        s7 == Call(s6, c6, z["temperature"])
        temperature == s7["temperature"]
        c7 == [name |-> "spo2", lo |-> 9600, hi |-> 10000, mu |-> 9850,
               theta |-> 25, sigma |-> 12, dt |-> dt]
        s8 == Call(s7, c7, z["spo2"])
        spo2 == s8["spo2"]
        timestamp == WallClock(now)
    IN [state |-> s8,
        last |-> now,
        locals |-> [now |-> now, elapsed |-> now - last, dt |-> dt, noise |-> z,
                    ou_calls |-> <<c1, c2, c3, c4, c5, c6, c7>>,
                    heart_rate |-> heart_rate, ecg_val |-> ecg_val,
                    respiratory_rate |-> respiratory_rate,
                    systolic |-> systolic, dia_ou |-> dia_ou,
                    fired |-> CouplingFires(systolic, dia_ou),
                    diastolic |-> diastolic,
                    temperature |-> temperature, spo2 |-> spo2,
                    data |-> Render(systolic, diastolic, heart_rate,
                                    respiratory_rate, temperature, spo2,
                                    ecg_val, timestamp)]]

(***************************************************************************)
(* The script: module load, main, and the calls main makes.                *)
(***************************************************************************)
StartupDelays == {0, 10}        \* time from line 59 to the first tick
Latency == {0, MaxLatency}      \* time spent in ref.set

\* the draws explored by the whole-program specification: one value for all
\* seven draws of a tick
UniformNoise == {[n \in Signals |-> v] : v \in Noise}

Init ==
    /\ pc = "load"
    /\ credExists \in BOOLEAN
    /\ args \in [validate : BOOLEAN, once : BOOLEAN]
    /\ _state = Unbound
    /\ _last_update_t = -1
    /\ clock = 0
    /\ frame = Unbound
    /\ sink = Unbound
    /\ ticks = 0
    /\ attempts = 0
    /\ sleeps = 0
    /\ interrupted = FALSE

\* lines 24-28: the credentials file is missing
module_load_fail ==
    /\ pc = "load"
    /\ ~credExists
    /\ pc' = "crashed"
    /\ UNCHANGED <<credExists, args, _state, _last_update_t, clock, frame,
                   sink, ticks, attempts, sleeps, interrupted>>

\* faulty variant of module_load: the existence check of line 24 is missing
module_load_nocheck(d) ==
    /\ pc = "load"
    /\ _state' = InitialState
    /\ _last_update_t' = clock
    /\ clock' = clock + d
    /\ pc' = "main"
    /\ UNCHANGED <<credExists, args, frame, sink, ticks, attempts, sleeps,
                   interrupted>>

\* lines 24-59 and 171-172: the module body runs to the call of main;
\* d is the time that passes after _last_update_t is taken
module_load(d) ==
    /\ pc = "load"
    /\ credExists
    /\ _state' = InitialState
    /\ _last_update_t' = clock
    /\ clock' = clock + d
    /\ pc' = "main"
    /\ UNCHANGED <<credExists, args, frame, sink, ticks, attempts, sleeps,
                   interrupted>>

\* faulty variant of send_fake_data: a failed publish undoes the step
send_fake_data_rollback(z, ok, lat) ==
    LET g == Generate(_state, _last_update_t, clock, z)
    IN /\ _state' = IF ok THEN g.state ELSE _state
       /\ _last_update_t' = IF ok THEN g.last ELSE _last_update_t
       /\ frame' = [call |-> g.locals, ok |-> ok]
       /\ attempts' = attempts + 1
       /\ sink' = IF ok THEN g.locals.data ELSE sink
       /\ clock' = clock + lat
       /\ ticks' = ticks + 1

\* send_fake_data (lines 80-145): z are the gauss draws, ok tells whether
\* ref.set returns, lat is the time the call takes
send_fake_data(z, ok, lat) ==
    LET g == Generate(_state, _last_update_t, clock, z)
    IN /\ _state' = g.state
       /\ _last_update_t' = g.last
       /\ frame' = [call |-> g.locals, ok |-> ok]
       /\ attempts' = attempts + 1
       /\ sink' = IF ok THEN g.locals.data ELSE sink
       /\ clock' = clock + lat
       /\ ticks' = ticks + 1

\* lines 154-156
main_validate ==
    /\ pc = "main"
    /\ args.validate
    /\ pc' = "done"
    /\ UNCHANGED <<credExists, args, _state, _last_update_t, clock, frame,
                   sink, ticks, attempts, sleeps, interrupted>>

\* faulty variant of main_once: the return of line 160 is missing
main_once_noreturn(z, ok, lat) ==
    /\ pc = "main"
    /\ ~args.validate
    /\ args.once
    /\ send_fake_data(z, ok, lat)
    /\ pc' = "loop"
    /\ UNCHANGED <<credExists, args, sleeps, interrupted>>

\* lines 158-160
main_once(z, ok, lat) ==
    /\ pc = "main"
    /\ ~args.validate
    /\ args.once
    /\ send_fake_data(z, ok, lat)
    /\ pc' = "done"
    /\ UNCHANGED <<credExists, args, sleeps, interrupted>>

\* lines 163-164: main enters the try block and the loop
main_loop_enter ==
    /\ pc = "main"
    /\ ~args.validate
    /\ ~args.once
    /\ pc' = "loop"
    /\ UNCHANGED <<credExists, args, _state, _last_update_t, clock, frame,
                   sink, ticks, attempts, sleeps, interrupted>>

\* faulty variant of main_loop_tick: the sleep is not part of the loop body
main_loop_tick_nosleep(z, ok, lat) ==
    /\ pc = "loop"
    /\ ticks < MaxTicks
    /\ send_fake_data(z, ok, lat)
    /\ pc' = "loop"
    /\ UNCHANGED <<credExists, args, sleeps, interrupted>>

\* line 165
main_loop_tick(z, ok, lat) ==
    /\ pc = "loop"
    /\ ticks < MaxTicks
    /\ send_fake_data(z, ok, lat)
    /\ pc' = "sleep"
    /\ UNCHANGED <<credExists, args, sleeps, interrupted>>

\* line 167
main_loop_sleep ==
    /\ pc = "sleep"
    /\ clock' = clock + 10
    /\ sleeps' = sleeps + 1
    /\ pc' = "loop"
    /\ UNCHANGED <<credExists, args, _state, _last_update_t, frame, sink,
                   ticks, attempts, interrupted>>

\* lines 168-169: KeyboardInterrupt raised in the loop
main_interrupt ==
    /\ pc \in {"loop", "sleep"}
    /\ interrupted' = TRUE
    /\ pc' = "done"
    /\ UNCHANGED <<credExists, args, _state, _last_update_t, clock, frame,
                   sink, ticks, attempts, sleeps>>

Next ==
    \/ module_load_fail
    \/ \E d \in StartupDelays : module_load(d)
    \/ main_validate
    \/ \E z \in UniformNoise, ok \in BOOLEAN, lat \in Latency : main_once(z, ok, lat)
    \/ main_loop_enter
    \/ \E z \in UniformNoise, ok \in BOOLEAN, lat \in Latency : main_loop_tick(z, ok, lat)
    \/ main_loop_sleep
    \/ main_interrupt

Spec == Init /\ [][Next]_vars

(***************************************************************************)
(* The running loop under independent draws.  The start is the state of    *)
(* Spec after module_load and main_loop_enter with working credentials and *)
(* no flag; the draws of a tick vary independently inside one group of     *)
(* signals and are 0 for the rest.                                          *)
(***************************************************************************)
Cardio == {"heartRate", "ecg"}
Resp == {"respiratoryRate"}
Pressure == {"systolic", "diastolic"}
Slow == {"temperature", "spo2"}

GroupNoise(group) ==
    {[n \in Signals |-> IF n \in group THEN f[n] ELSE 0] : f \in [group -> Noise]}

InitLoop ==
    /\ pc = "loop"
    /\ credExists = TRUE
    /\ args = [validate |-> FALSE, once |-> FALSE]
    /\ _state = InitialState
    /\ _last_update_t = 0
    /\ clock \in StartupDelays
    /\ frame = Unbound
    /\ sink = Unbound
    /\ ticks = 0
    /\ attempts = 0
    /\ sleeps = 0
    /\ interrupted = FALSE

NextLoop ==
    \/ \E z \in GroupNoise(Cardio), lat \in Latency : main_loop_tick(z, TRUE, lat)
    \/ \E z \in GroupNoise(Resp), lat \in Latency : main_loop_tick(z, TRUE, lat)
    \/ \E z \in GroupNoise(Pressure), lat \in Latency : main_loop_tick(z, TRUE, lat)
    \/ \E z \in GroupNoise(Slow), lat \in Latency : main_loop_tick(z, TRUE, lat)
    \/ main_loop_sleep

SpecLoop == InitLoop /\ [][NextLoop]_vars

(***************************************************************************)
(* The ecg step alone: heartRate is held at a value h, the draw is 0 and   *)
(* the ecg step of lines 91-93 is applied repeatedly.  ticks counts the    *)
(* steps; frame keeps the dt and the ecg value before the step.            *)
(***************************************************************************)
HeldRates == {6000, 7460, 7500, 9000, 10000}
EcgStarts == {5500, 6500, 7000, 7400, 8000}
EcgDts == {1, 5, 10, 10 + MaxLatency}

InitEcg ==
    /\ pc = "loop"
    /\ credExists = TRUE
    /\ args = [validate |-> FALSE, once |-> FALSE]
    /\ \E h \in HeldRates, e \in EcgStarts :
          /\ e < h
          /\ _state = [InitialState EXCEPT !["heartRate"] = h, !["ecg"] = e]
    /\ _last_update_t = 0
    /\ clock = 0
    /\ frame = Unbound
    /\ sink = Unbound
    /\ ticks = 0
    /\ attempts = 0
    /\ sleeps = 0
    /\ interrupted = FALSE

ecg_step(dt) ==
    /\ ticks < MaxEcgSteps
    /\ _state' = Call(_state, EcgCall(_state["heartRate"], dt), 0)
    /\ frame' = [dt |-> dt, ecg_before |-> _state["ecg"]]
    /\ ticks' = ticks + 1
    /\ UNCHANGED <<pc, credExists, args, _last_update_t, clock, sink,
                   attempts, sleeps, interrupted>>

NextEcg == \E dt \in EcgDts : ecg_step(dt)

SpecEcg == InitEcg /\ [][NextEcg]_vars

(***************************************************************************)
(* Properties.                                                             *)
(***************************************************************************)
Loaded == _state # Unbound
Ticked == ticks > 0

InRange(st) ==
    /\ st["heartRate"] >= 6000 /\ st["heartRate"] <= 10000
    /\ st["ecg"] >= 5500 /\ st["ecg"] <= 11000
    /\ st["respiratoryRate"] >= 1200 /\ st["respiratoryRate"] <= 2000
    /\ st["systolic"] >= 10500 /\ st["systolic"] <= 13000
    /\ st["diastolic"] >= 6500 /\ st["diastolic"] <= 8500
    /\ st["temperature"] >= 3650 /\ st["temperature"] <= 3720
    /\ st["spo2"] >= 9600 /\ st["spo2"] <= 10000

\* C1: in the initial state and after every call of send_fake_data every
\* value of _state lies inside its declared inclusive range, diastolic
\* after the coupling correction included.
C1_Bounds == Loaded => InRange(_state)

\* C1 witness: a tick whose diastolic step was clamped at the upper bound 85
\* and whose correction branch then fired and stored a lower value.
C1_Witness ==
    /\ Ticked
    /\ frame.call.dia_ou = 8500
    /\ frame.call.fired
    /\ _state["diastolic"] = frame.call.diastolic
    /\ _state["diastolic"] < 8500

C10_PulsePressure ==
    Loaded =>
        /\ _state["diastolic"] <= _state["systolic"] - 2500
        /\ (Ticked /\ frame.call.fired) =>
              /\ _state["diastolic"] = frame.call.systolic - 2500
              /\ frame.call.systolic - 2500 >= 8000
              /\ frame.call.systolic - 2500 < 8500

\* C10 witness: the branch fired and overrode the stepped diastolic.
C10_Witness ==
    /\ Ticked
    /\ frame.call.fired
    /\ frame.call.dia_ou > _state["diastolic"]
    /\ _state["diastolic"] = _state["systolic"] - 2500

\* C3: with the draw 0 and heartRate held at h, an ecg value below h is
\* followed by one that is no smaller and not past h.
C3_EcgMonotone ==
    (Ticked /\ frame.ecg_before < _state["heartRate"]) =>
        /\ _state["ecg"] >= frame.ecg_before
        /\ _state["ecg"] <= _state["heartRate"]

Continuous == ~args.validate /\ ~args.once

\* C4: heartRate is stepped first; the ecg mean and the respiratory mean
\* are computed from the heartRate of this tick; systolic is stepped before
\* the coupling check reads it.  From the initial state with all draws 0
\* and dt = 1.0 the first tick gives heartRate 74.6 (published 75) and
\* ecg 75.08 (published 75).
C4_StepOrdering ==
    Ticked =>
        LET c == frame.call
            hr == _state["heartRate"]
        IN /\ c.ou_calls[1].name = "heartRate"
           /\ c.ou_calls[2].name = "ecg"
           /\ c.ou_calls[2].mu = hr
           /\ c.ou_calls[3].name = "respiratoryRate"
           /\ c.ou_calls[3].mu = Max(1200, Min(1800, 1400 + (2 * (hr - 7500) * 5 + 100) \div 200))
           /\ c.ou_calls[4].name = "systolic"
           /\ c.ou_calls[5].name = "diastolic"
           /\ c.fired = (c.dia_ou > _state["systolic"] - 2500)
           /\ (ticks = 1 /\ c.noise = ZeroNoise /\ c.dt = 10) =>
                 /\ hr = 7460
                 /\ c.data.heartRate = 75
                 /\ _state["ecg"] = 7508
                 /\ c.data.ecg = 75

\* C4 witness: the first tick, all draws 0, one second after module load.
C4_Witness ==
    /\ ticks = 1
    /\ frame.call.noise = ZeroNoise
    /\ frame.call.dt = 10
    /\ _state["heartRate"] = 7460
    /\ _state["ecg"] = 7508

\* C5: every _ou_step call of a tick gets the same dt, which is
\* max(0.1, now - _last_update_t): 0.1 when no time has passed, never 0
\* or less.
C5_DtFloor ==
    Ticked =>
        LET c == frame.call
        IN /\ Len(c.ou_calls) = 7
           /\ \A i \in 1..7 : c.ou_calls[i].dt = c.dt
           /\ c.dt >= 1
           /\ (c.elapsed < 1 => c.dt = 1)
           /\ (c.elapsed >= 1 => c.dt = c.elapsed)

\* C5 witness: a tick with no elapsed time, run with dt = 0.1.
C5_Witness ==
    /\ Ticked
    /\ frame.call.elapsed = 0
    /\ frame.call.dt = 1
    /\ frame.call.ou_calls[7].dt = 1

\* C6: a tick whose publish fails leaves _state and _last_update_t as the
\* generator set them, makes one publish attempt, stores nothing in the
\* sink and lets main go on (to the sleep in the loop, to the exit with
\* --once); a publish that succeeds stores this tick's own Reading.
C6_PublishFailure ==
    [][(ticks' = ticks + 1) =>
          LET g == Generate(_state, _last_update_t, clock, frame'.call.noise)
          IN /\ attempts' = attempts + 1
             /\ _state' = g.state
             /\ _last_update_t' = clock
             /\ frame'.call.data = g.locals.data
             /\ (frame'.ok => sink' = frame'.call.data)
             /\ (~frame'.ok => sink' = sink)
             /\ (pc = "loop" => pc' = "sleep")
             /\ (pc = "main" => pc' = "done")]_vars

\* C6 witness: the loop made a second tick although no publish has
\* succeeded so far.
C6_Witness ==
    /\ ticks = 2
    /\ attempts = 2
    /\ ~frame.ok
    /\ sink = Unbound
    /\ _state # InitialState
    /\ _last_update_t = frame.call.now

\* C7: without the credentials file nothing runs: no tick, no publish, and
\* the generator's names are never bound, whatever the flags.
C7_MissingCredentials ==
    ~credExists =>
        /\ pc \in {"load", "crashed"}
        /\ ticks = 0
        /\ attempts = 0
        /\ _state = Unbound
        /\ frame = Unbound
        /\ sink = Unbound

\* C7 witness: the script stopped at line 25 although a tick was asked for.
C7_Witness ==
    /\ pc = "crashed"
    /\ ~credExists
    /\ args.once
    /\ ~args.validate

\* C8: --validate runs no tick (also with --once); --once alone runs
\* exactly one tick with one publish attempt and exits; without flags main
\* exits only through KeyboardInterrupt.
C8_RunModes ==
    /\ args.validate => (ticks = 0 /\ attempts = 0 /\ ~interrupted)
    /\ (args.once /\ ~args.validate) =>
          /\ ticks <= 1
          /\ ~interrupted
          /\ pc = "done" => (ticks = 1 /\ attempts = 1)
    /\ Continuous => (pc = "done" => interrupted)

\* C8 witness: --once has exited after its single tick, whose publish failed.
C8_Witness ==
    /\ pc = "done"
    /\ args.once
    /\ ~args.validate
    /\ ticks = 1
    /\ ~frame.ok

\* C9 as claimed: no sleep is ever executed.
C9_SleepNeverRuns == sleeps = 0

\* C9 as amended: the sleep is part of the loop body; every tick of the
\* loop is followed by one sleep of a second before the next tick, so every
\* tick after the first sees at least one second elapsed.
C9_SleepAfterEveryTick ==
    (Continuous /\ Loaded) =>
        /\ pc = "loop" => sleeps = ticks
        /\ pc = "sleep" => sleeps = ticks - 1
        /\ ticks >= 2 => frame.call.elapsed >= 10

\* C9 witness: the second tick of the loop, after one sleep.
C9_Witness ==
    /\ Continuous
    /\ ticks = 2
    /\ sleeps = 1
    /\ frame.call.elapsed >= 10

====
